---- MODULE Spec2Model ----
(***************************************************************************)
(* Budge: a personal finance tracker.  Two programs share one table        *)
(* schema: the CLI (budgeter.py: BudgetDB, CloudSync) and the web app      *)
(* (app.py over database.py, utils.py, config.py).  Each program has its   *)
(* own SQLite file, so a behaviour of the model is a behaviour of one of   *)
(* them, chosen by `variant` in Init.                                      *)
(***************************************************************************)
EXTENDS Integers, Sequences, FiniteSets, TLC

VARIABLES
    variant,          \* "cli" (budgeter.py) or "web" (app.py)
    cfg,              \* config.json: key -> text (a sequence of characters)
    env,              \* import-time flags GS_AVAILABLE, REQUESTS_AVAILABLE
    transactions,     \* table transactions: id -> row
    sqlite_sequence,  \* AUTOINCREMENT: largest rowid ever assigned
    pc,               \* position of the sync run in progress, "idle" if none
    unsynced,         \* local `unsynced` of the run: the rows fetched
    i,                \* position of the run's loop in `unsynced`
    synced_ids,       \* local `synced_ids` / `appended_ids` of the run
    sink,             \* remote store: sequence of records [key, tx]
    ret,              \* what the last sync entry point returned
    run,              \* history: bookkeeping of the run in progress
    last,             \* history: bookkeeping of the last completed firebase_sync run
    acked,            \* history: ids the sink answered with success
    assigned,         \* history: ids ever assigned by an INSERT
    edited,           \* history: ids updated while their row was synced
    repushed,         \* history: ids written to the store while it held them
    settled,          \* the surroundings have settled: the store answers 200
                      \* and the process is no longer killed
    called,           \* the last call of a function of the store: its name,
                      \* its arguments and what it returned
    amount_str,       \* codec: the input text
    cents,            \* codec: the input cents value
    shown,            \* codec: the formatted text
    parsed,           \* codec: the result of parsing
    cpc               \* codec: position of the codec exercise

ledgerVars == <<variant, cfg, env, transactions, sqlite_sequence, pc, unsynced,
                i, synced_ids, sink, ret, run, last, acked, assigned, edited,
                repushed, settled, called>>
codecVars == <<amount_str, cents, shown, parsed, cpc>>
vars == <<ledgerVars, codecVars>>

(***************************************************************************)
(* Bounds                                                                  *)
(***************************************************************************)
MaxTx == 2         \* INSERTs per behaviour
MaxSink == 3       \* rows the spreadsheet holds
MaxPosts == 1      \* batches the web app's remote store holds
MaxLen == 4        \* length of an input text of the codec
MaxCents == 250    \* magnitude of a cents value given to the formatter
MaxRows == 2       \* INSERTs per behaviour of the store on its own

(***************************************************************************)
(* Text: a Python str is a sequence of one-character strings.              *)
(***************************************************************************)
Digits == {"0", "1", "2", "3", "4", "5", "6", "7", "8", "9"}
Alphabet == {"0", "1", "5", ".", "-", "$", ",", " "}

DigitVal(c) ==
    CASE c = "0" -> 0 [] c = "1" -> 1 [] c = "2" -> 2 [] c = "3" -> 3
      [] c = "4" -> 4 [] c = "5" -> 5 [] c = "6" -> 6 [] c = "7" -> 7
      [] c = "8" -> 8 [] c = "9" -> 9

DigitChar(d) ==
    CASE d = 0 -> "0" [] d = 1 -> "1" [] d = 2 -> "2" [] d = 3 -> "3"
      [] d = 4 -> "4" [] d = 5 -> "5" [] d = 6 -> "6" [] d = 7 -> "7"
      [] d = 8 -> "8" [] d = 9 -> "9"

Texts(n) == UNION {[1..k -> Alphabet] : k \in 0..n}

\* amounts as a user writes them: "-12.34", "$1,234.56", "-0.05"
Examples ==
    { <<"-", "1", "2", ".", "3", "4">>,
      <<"$", "1", ",", "2", "3", "4", ".", "5", "6">>,
      <<"-", "0", ".", "0", "5">> }

\* str.replace(ch, "")
Remove(s, ch) == SelectSeq(s, LAMBDA c : c # ch)

\* str.startswith(ch)
StartsWith(s, ch) == Len(s) > 0 /\ s[1] = ch

\* s[1:]
Rest(s) == IF Len(s) = 0 THEN s ELSE Tail(s)

\* ch in s
Contains(s, ch) == \E k \in 1..Len(s) : s[k] = ch

\* s.count(ch)
Count(s, ch) == Cardinality({k \in 1..Len(s) : s[k] = ch})

\* str.strip() on the whitespace of the alphabet
RECURSIVE LStrip(_)
LStrip(s) == IF Len(s) > 0 /\ s[1] = " " THEN LStrip(Tail(s)) ELSE s

RECURSIVE RStripCh(_, _)
RStripCh(s, ch) ==
    IF Len(s) > 0 /\ s[Len(s)] = ch THEN RStripCh(SubSeq(s, 1, Len(s) - 1), ch) ELSE s

Strip(s) == RStripCh(LStrip(s), " ")

\* value of a run of decimal digits, most significant first
RECURSIVE DigitsVal(_)
DigitsVal(s) ==
    IF Len(s) = 0 THEN 0
    ELSE 10 * DigitsVal(SubSeq(s, 1, Len(s) - 1)) + DigitVal(s[Len(s)])

AllDigits(s) == \A k \in 1..Len(s) : s[k] \in Digits

\* str(n) for n >= 0
RECURSIVE NatToStr(_)
NatToStr(n) ==
    IF n < 10 THEN <<DigitChar(n)>> ELSE Append(NatToStr(n \div 10), DigitChar(n % 10))

Abs(n) == IF n < 0 THEN -n ELSE n

(***************************************************************************)
(* Results of a function that may raise.                                   *)
(***************************************************************************)
Return(v) == [ok |-> TRUE, val |-> v]
Raise == [ok |-> FALSE, val |-> 0]     \* ValueError / decimal.InvalidOperation

(***************************************************************************)
(* Python's int(str): surrounding whitespace is dropped, one sign is       *)
(* allowed, then digits, with single underscores allowed between digits.   *)
(***************************************************************************)
IntBodyOk(b) ==
    /\ Len(b) > 0
    /\ b[1] \in Digits
    /\ b[Len(b)] \in Digits
    /\ \A k \in 1..Len(b) : b[k] \in Digits \cup {"_"}
    /\ \A k \in 1..(Len(b) - 1) : ~(b[k] = "_" /\ b[k + 1] = "_")

PyInt(s) ==
    LET t == Strip(s)
        neg == StartsWith(t, "-")
        b == IF StartsWith(t, "-") \/ StartsWith(t, "+") THEN Tail(t) ELSE t
        v == DigitsVal(Remove(b, "_"))
    IN  IF IntBodyOk(b) THEN Return(IF neg THEN -v ELSE v) ELSE Raise

(***************************************************************************)
(* utils.py: the codec of the web app.                                     *)
(***************************************************************************)
\* the position of the only "." of s
DotAt(s) == CHOOSE k \in 1..Len(s) : s[k] = "."

\* to_cents with the sign applied to the whole units only
to_cents_sign_on_dollars(amount) ==
    IF Len(amount) = 0 THEN Return(0)
    ELSE
      LET s0 == Remove(Remove(amount, ","), "$")
          multiplier == IF StartsWith(s0, "-") THEN -1 ELSE 1
          s == IF multiplier = -1 THEN Rest(s0) ELSE s0
      IN  IF ~Contains(s, ".")
          THEN LET w == PyInt(s)
               IN  IF w.ok THEN Return(w.val * 100 * multiplier) ELSE Raise
          ELSE IF Count(s, ".") # 1 THEN Raise
          ELSE
            LET dollars == SubSeq(s, 1, DotAt(s) - 1)
                frac == SubSeq(s, DotAt(s) + 1, Len(s))
                d == PyInt(dollars)
                c == PyInt(frac)
            IN  IF Len(frac) # 2 THEN Raise
                ELSE IF d.ok /\ c.ok
                     THEN Return(d.val * 100 * multiplier + c.val)
                     ELSE Raise

to_cents(amount) ==
    IF Len(amount) = 0 THEN Return(0)                        \* if not amount_str
    ELSE
      LET s0 == Remove(Remove(amount, ","), "$")
          multiplier == IF StartsWith(s0, "-") THEN -1 ELSE 1
          s == IF multiplier = -1 THEN Rest(s0) ELSE s0
      IN  IF ~Contains(s, ".")
          THEN LET w == PyInt(s)
               IN  IF w.ok THEN Return(w.val * 100 * multiplier) ELSE Raise
          ELSE IF Count(s, ".") # 1 THEN Raise              \* unpacking split(".")
          ELSE
            LET dollars == SubSeq(s, 1, DotAt(s) - 1)
                frac == SubSeq(s, DotAt(s) + 1, Len(s))
                d == PyInt(dollars)
                c == PyInt(frac)
            IN  IF Len(frac) # 2 THEN Raise
                ELSE IF d.ok /\ c.ok
                     THEN Return((d.val * 100 + c.val) * multiplier)
                     ELSE Raise

\* f"{x:02d}" for 0 <= x < 100
TwoDigits(x) == <<DigitChar(x \div 10), DigitChar(x % 10)>>

\* cents_to_str without the zero padding of the cents ("{:.2f}" lost)
cents_to_str_unpadded(c) ==
    (IF c < 0 THEN <<"-">> ELSE <<>>)
        \o NatToStr(Abs(c) \div 100) \o <<".">> \o NatToStr(Abs(c) % 100)

\* utils.cents_to_str: f"{cents / 100:.2f}", the double nearest to cents/100
\* printed with two decimals.  For |cents| < 2^52 that double lies within
\* 0.005 of cents/100, so the text is the exact two-decimal expansion; every
\* value TLC can represent is below that.  (None gives "", see FormatNone.)
cents_to_str(c) ==
    (IF c < 0 THEN <<"-">> ELSE <<>>)
        \o NatToStr(Abs(c) \div 100) \o <<".">> \o TwoDigits(Abs(c) % 100)

(***************************************************************************)
(* budgeter.py: the codec of the CLI.                                      *)
(***************************************************************************)
\* decimal.Decimal(str) on the alphabet: surrounding whitespace and every
\* underscore dropped, one sign, then digits with an optional "." and
\* fraction, or "." and digits.
DecimalParse(s) ==
    LET t == Remove(Strip(s), "_")
        neg == StartsWith(t, "-")
        b == IF StartsWith(t, "-") \/ StartsWith(t, "+") THEN Tail(t) ELSE t
        p == IF Contains(b, ".") THEN DotAt(b) ELSE Len(b) + 1
        whole == SubSeq(b, 1, p - 1)
        frac == SubSeq(b, p + 1, Len(b))
    IN  IF /\ Count(b, ".") <= 1
           /\ AllDigits(whole) /\ AllDigits(frac)
           /\ Len(whole) + Len(frac) > 0
        THEN [ok |-> TRUE, neg |-> neg, whole |-> whole, frac |-> frac]
        ELSE [ok |-> FALSE, neg |-> FALSE, whole |-> <<>>, frac |-> <<>>]

\* Decimal.quantize(Decimal("0.01"), ROUND_HALF_UP) * 100, as an integer
budgeter_to_cents(amount) ==
    LET d == DecimalParse(amount)
        f == d.frac \o <<"0", "0", "0">>
        mag == DigitsVal(d.whole) * 100 + DigitVal(f[1]) * 10 + DigitVal(f[2])
                 + (IF DigitVal(f[3]) >= 5 THEN 1 ELSE 0)
    IN  IF d.ok THEN Return(IF d.neg THEN -mag ELSE mag) ELSE Raise

budgeter_cents_to_str(c) ==
    LET sign == IF c < 0 THEN <<"-">> ELSE <<>>
        cents_abs == Abs(c)
        dollars == cents_abs \div 100
        rem == cents_abs % 100
    IN  sign \o NatToStr(dollars) \o <<".">> \o TwoDigits(rem)

(***************************************************************************)
(* Configuration (config.json) and import-time environment.                *)
(***************************************************************************)
\* dict.get(key, default)
Get(c, key, default) == IF key \in DOMAIN c THEN c[key] ELSE default

\* truth value of dict.get(key): a missing key gives None, "" is false
Truthy(c, key) == key \in DOMAIN c /\ c[key] # <<>>

Url == <<"h">>          \* stands for https://<db>.firebaseio.com
File == <<"f">>         \* stands for a service account file / a sheet name

NoGoogle == "google_service_account_file" :> <<>> @@ "google_sheet_name" :> <<>>
Google == "google_service_account_file" :> File @@ "google_sheet_name" :> File

\* budgeter.load_config: the default has all three keys; a hand-edited file
\* may lack one
CliConfigs ==
    { "firebase_url" :> Url @@ NoGoogle,
      "firebase_url" :> (Url \o <<"/">>) @@ Google,
      "firebase_url" :> <<>> @@ NoGoogle,
      "firebase_url" :> <<"/">> @@ NoGoogle,
      "firebase_url" :> <<>> @@ Google,
      NoGoogle,
      Google }

\* config.ensure_config: the default has firebase_url ""
WebConfigs ==
    { "firebase_url" :> Url,
      "firebase_url" :> <<>>,
      "firebase_url" :> <<"/">>,
      <<>> }

(***************************************************************************)
(* The table `transactions` (database.init_db, BudgetDB._init_db).         *)
(***************************************************************************)
Ids == DOMAIN transactions

SetMax(S) == CHOOSE m \in S : \A x \in S : x <= m

\* INTEGER PRIMARY KEY without AUTOINCREMENT: one more than the largest rowid
\* now in the table
NextRowid_reusing == SetMax({0} \cup Ids) + 1

\* INTEGER PRIMARY KEY AUTOINCREMENT: one more than the largest rowid the
\* table ever held (sqlite_sequence), which no DELETE lowers
NextRowid == SetMax({sqlite_sequence} \cup Ids) + 1

\* INSERT INTO transactions (...): synced takes its default, FALSE / 0
Insert(iso_date, amount_cents, ttype, category, description) ==
    /\ transactions' = transactions @@ (NextRowid :>
         [id |-> NextRowid, iso_date |-> iso_date, amount_cents |-> amount_cents,
          type |-> ttype, category |-> category, description |-> description,
          created_at |-> NextRowid, synced |-> FALSE])
    /\ sqlite_sequence' = NextRowid
    /\ assigned' = assigned \cup {NextRowid}

\* database.add_tx / BudgetDB.add_transaction
add_tx(iso_date, amount_cents, ttype, category, description) ==
    Insert(iso_date, amount_cents, ttype, category, description)

\* update_tx writing the whole row back with synced at its default
update_tx_resetting(txid, iso_date, amount_cents, ttype, category, description) ==
    transactions' =
        [x \in Ids |->
            IF x = txid
            THEN [transactions[x] EXCEPT !.iso_date = iso_date,
                                         !.amount_cents = amount_cents,
                                         !.type = ttype,
                                         !.category = category,
                                         !.description = description,
                                         !.synced = FALSE]
            ELSE transactions[x]]

\* update_tx without its WHERE clause: every row is written
update_tx_unkeyed(txid, iso_date, amount_cents, ttype, category, description) ==
    transactions' =
        [x \in Ids |->
            [transactions[x] EXCEPT !.iso_date = iso_date,
                                    !.amount_cents = amount_cents,
                                    !.type = ttype,
                                    !.category = category,
                                    !.description = description]]

\* database.update_tx: UPDATE ... SET iso_date, amount_cents, type, category,
\* description WHERE id = ?   (no row, no change)
update_tx(txid, iso_date, amount_cents, ttype, category, description) ==
    transactions' =
        [x \in Ids |->
            IF x = txid
            THEN [transactions[x] EXCEPT !.iso_date = iso_date,
                                         !.amount_cents = amount_cents,
                                         !.type = ttype,
                                         !.category = category,
                                         !.description = description]
            ELSE transactions[x]]

\* delete_tx comparing with <= : the row and every older one go
delete_tx_upto(txid) == transactions' = [x \in {y \in Ids : y > txid} |-> transactions[x]]

\* database.delete_tx: DELETE FROM transactions WHERE id = ?
delete_tx(txid) == transactions' = [x \in Ids \ {txid} |-> transactions[x]]

\* the rows with synced = 0, as a set of ids
UnsyncedIds == {x \in Ids : ~transactions[x].synced}

\* a set of ids in ascending order
RECURSIVE Ascending(_)
Ascending(S) ==
    IF S = {} THEN <<>>
    ELSE LET m == SetMax(S) IN Append(Ascending(S \ {m}), m)

\* every order of a set of ids
Orders(S) == {o \in [1..Cardinality(S) -> S] : \A x \in S : \E k \in DOMAIN o : o[k] = x}

\* BudgetDB.unsynced: ... WHERE synced = 0 ORDER BY id ASC
Unsynced == [k \in 1..Cardinality(UnsyncedIds) |-> transactions[Ascending(UnsyncedIds)[k]]]

\* database.unsynced_txs: ... WHERE synced = FALSE, no ORDER BY: any order
unsynced_txs == {[k \in DOMAIN o |-> transactions[o[k]]] : o \in Orders(UnsyncedIds)}

\* the ids of a sequence of rows
IdsOf(rows) == {rows[k].id : k \in DOMAIN rows}

\* mark_synced without its WHERE clause: every row is marked
mark_synced_unkeyed(tx_ids) ==
    transactions' = [x \in Ids |-> [transactions[x] EXCEPT !.synced = TRUE]]

\* database.mark_synced / BudgetDB.mark_synced:
\* UPDATE transactions SET synced = 1 WHERE id IN (...)
mark_synced(tx_ids) ==
    transactions' =
        [x \in Ids |->
            IF \E k \in DOMAIN tx_ids : tx_ids[k] = x
            THEN [transactions[x] EXCEPT !.synced = TRUE]
            ELSE transactions[x]]

(***************************************************************************)
(* The queries of the store.  A date or a month is a TEXT value; SQLite    *)
(* compares TEXT byte by byte and LIKE 'p%' matches the texts starting     *)
(* with p.                                                                 *)
(***************************************************************************)
\* the characters of the date and month texts in use
Chars(text) ==
    CASE text = "" -> <<>>
      [] text = "2025-01" -> <<"2", "0", "2", "5", "-", "0", "1">>
      [] text = "2025-02" -> <<"2", "0", "2", "5", "-", "0", "2">>
      [] text = "2025-01-01" -> <<"2", "0", "2", "5", "-", "0", "1", "-", "0", "1">>
      [] text = "2025-01-02" -> <<"2", "0", "2", "5", "-", "0", "1", "-", "0", "2">>
      [] text = "2025-02-01" -> <<"2", "0", "2", "5", "-", "0", "2", "-", "0", "1">>

\* the byte of a character of a date
Byte(ch) == IF ch = "-" THEN 45 ELSE 48 + DigitVal(ch)

\* a < b as TEXT (memcmp, the shorter of two equal beginnings first)
TextLess(a, b) ==
    \E k \in 1..Len(b) :
        /\ k - 1 <= Len(a)
        /\ \A j \in 1..(k - 1) : a[j] = b[j]
        /\ k > Len(a) \/ Byte(a[k]) < Byte(b[k])

\* iso_date LIKE prefix || '%'
Like(iso_date, prefix) ==
    /\ Len(Chars(prefix)) <= Len(Chars(iso_date))
    /\ SubSeq(Chars(iso_date), 1, Len(Chars(prefix))) = Chars(prefix)

\* Python's None, and a value that is not None
None == [none |-> TRUE]
Value(v) == [none |-> FALSE, val |-> v]

\* ORDER BY iso_date DESC, id DESC: row a comes before row b
DateDescIdDesc(a, b) ==
    \/ TextLess(Chars(b.iso_date), Chars(a.iso_date))
    \/ a.iso_date = b.iso_date /\ a.id > b.id

\* ORDER BY iso_date DESC: row a may come before row b
DateDesc(a, b) == ~TextLess(Chars(a.iso_date), Chars(b.iso_date))

\* LIMIT n (a negative n is no limit)
Limit(rows, n) == IF n < 0 \/ n >= Len(rows) THEN rows ELSE SubSeq(rows, 1, n)

\* SELECT ... ORDER BY iso_date DESC, id DESC over the rows with ids S: the
\* row that comes before every other one, then the rest
RECURSIVE OrderedByDateId(_)
OrderedByDateId(S) ==
    IF S = {} THEN <<>>
    ELSE LET x == CHOOSE x \in S :
                    \A y \in S \ {x} : DateDescIdDesc(transactions[x], transactions[y])
         IN  <<transactions[x]>> \o OrderedByDateId(S \ {x})

\* SELECT ... ORDER BY iso_date DESC over the rows with ids S: every order
\* in which no row comes before a row of a later date
RECURSIVE OrderedByDate(_)
OrderedByDate(S) ==
    IF S = {} THEN {<<>>}
    ELSE UNION { {<<transactions[x]>> \o rest : rest \in OrderedByDate(S \ {x})} :
                 x \in {x \in S : \A y \in S : DateDesc(transactions[x], transactions[y])} }

\* list_txs without the WHERE clause
list_txs_any_month(limit, month_prefix) == Limit(OrderedByDateId(Ids), limit)

\* database.list_txs(limit, month_prefix); a month_prefix of None or "" does
\* not filter
list_txs(limit, month_prefix) ==
    IF month_prefix # ""
    THEN Limit(OrderedByDateId({x \in Ids : Like(transactions[x].iso_date, month_prefix)}),
               limit)
    ELSE Limit(OrderedByDateId(Ids), limit)

\* BudgetDB.list_transactions(limit)
list_transactions(limit) == Limit(OrderedByDateId(Ids), limit)

\* find_transactions with `iso_date < ?` for the end of the range
find_transactions_end_exclusive(start_date, end_date, category) ==
    LET S == {x \in Ids :
                /\ start_date # "" =>
                      ~TextLess(Chars(transactions[x].iso_date), Chars(start_date))
                /\ end_date # "" =>
                      TextLess(Chars(transactions[x].iso_date), Chars(end_date))
                /\ category # "" => transactions[x].category = category}
    IN  OrderedByDate(S)

\* BudgetDB.find_transactions(start_date, end_date, category): an argument of
\* None or "" does not filter; ORDER BY iso_date DESC leaves the order of
\* rows of one date to SQLite
find_transactions(start_date, end_date, category) ==
    LET S == {x \in Ids :
                /\ start_date # "" =>
                      ~TextLess(Chars(transactions[x].iso_date), Chars(start_date))
                /\ end_date # "" =>
                      ~TextLess(Chars(end_date), Chars(transactions[x].iso_date))
                /\ category # "" => transactions[x].category = category}
    IN  OrderedByDate(S)

\* database.get_tx(txid): cur.fetchone(), the row or None
get_tx(txid) == IF txid \in Ids THEN Value(transactions[txid]) ELSE None

\* SUM(amount_cents) over the rows with ids S
RECURSIVE SumCents(_)
SumCents(S) ==
    IF S = {} THEN 0
    ELSE LET x == CHOOSE x \in S : TRUE
         IN  transactions[x].amount_cents + SumCents(S \ {x})

\* monthly_summary without the filter on the type
monthly_summary_all_types(month_prefix) ==
    LET S == {x \in Ids : Like(transactions[x].iso_date, month_prefix)}
    IN  [c \in {transactions[x].category : x \in S} |->
            SumCents({x \in S : transactions[x].category = c})]

\* database.monthly_summary(month_prefix): SELECT category, SUM(amount_cents)
\* ... WHERE iso_date LIKE ? AND type = 'expense' GROUP BY category, as a dict
monthly_summary(month_prefix) ==
    LET S == {x \in Ids : /\ Like(transactions[x].iso_date, month_prefix)
                          /\ transactions[x].type = "expense"}
    IN  [c \in {transactions[x].category : x \in S} |->
            SumCents({x \in S : transactions[x].category = c})]

(***************************************************************************)
(* The remote store and its answers.                                       *)
(***************************************************************************)
\* an HTTP answer with a status code; the store keeps what it answered 2xx to
Status(code) == [exc |-> FALSE, code |-> code, stored |-> code \in 200..299]

\* no answer: requests raised (refused, timed out); the write may have landed
Exc(stored) == [exc |-> TRUE, code |-> 0, stored |-> stored]

Responses == {Status(200), Status(201), Status(204), Status(500), Exc(FALSE), Exc(TRUE)}

\* the store answered with success (section 6: success = 2xx)
Is2xx(resp) == ~resp.exc /\ resp.code \in 200..299

\* PUT {base}/transactions/{key}.json: writes, or overwrites, the node `key`
SinkPut(key, ids) ==
    IF \E k \in DOMAIN sink : sink[k].key = key
    THEN [k \in DOMAIN sink |->
            IF sink[k].key = key THEN [key |-> key, txs |-> ids] ELSE sink[k]]
    ELSE Append(sink, [key |-> key, txs |-> ids])

\* POST / worksheet.append_row: adds a node (a row) under a key of its own
SinkAppend(ids) == Append(sink, [key |-> Len(sink) + 1, txs |-> ids])

(***************************************************************************)
(* Bookkeeping of sync runs (history, read by no action's guard).          *)
(***************************************************************************)
\* U: the ids fetched, known: the ids in the table at the fetch, tried: the ids
\* pushed so far, C: the ids whose push the store confirmed, A: the ids whose
\* push the store answered with a 2xx status, pushes: the ids pushed, in the
\* order of the pushes
NoRun == [valid |-> FALSE, U |-> {}, C |-> {}, known |-> {}, tried |-> {},
          A |-> {}, pushes |-> <<>>]
Fetched(rows) == [valid |-> TRUE, U |-> IdsOf(rows), C |-> {}, known |-> Ids, tried |-> {},
                  A |-> {}, pushes |-> <<>>]

\* what is kept of a run that returned; marked: the arguments of its calls of
\* mark_synced, in the order of the calls
Completed(r, marked) ==
    [valid |-> r.valid, U |-> r.U, C |-> r.C, known |-> r.known, tried |-> r.tried,
     marked |-> marked]

\* a call of a function of the store
Call(name, args, result) == [name |-> name, args |-> args, result |-> result]
NoCall == Call("", <<>>, None)

Ret(ok, ids, message) == [ok |-> ok, synced |-> Len(ids), ids |-> ids, message |-> message]
NoRet == Ret(FALSE, <<>>, "")

\* a sync entry point returns without having started a run
Returns(r) ==
    /\ ret' = r
    /\ UNCHANGED <<variant, cfg, env, transactions, sqlite_sequence, pc, unsynced,
                   i, synced_ids, sink, run, last, acked, assigned>>

\* a run starts its loop over the rows it fetched
Starts(at, rows) ==
    /\ pc' = at
    /\ unsynced' = rows
    /\ i' = 1
    /\ synced_ids' = <<>>
    /\ run' = Fetched(rows)
    /\ UNCHANGED <<variant, cfg, env, transactions, sqlite_sequence, sink, ret,
                   last, acked, assigned>>

\* a run ends: its locals are gone
Ends(r) ==
    /\ pc' = "idle"
    /\ unsynced' = <<>>
    /\ i' = 0
    /\ synced_ids' = <<>>
    /\ ret' = r
    /\ run' = NoRun

(***************************************************************************)
(* budgeter.py: the CLI.                                                   *)
(***************************************************************************)
CliInputs ==
    { [date |-> "2025-01-01", kind |-> "expense", amt |-> <<"5">>,
       category |-> "Groceries", description |-> ""],
      [date |-> "2025-01-02", kind |-> "expense", amt |-> <<"$", "5">>,
       category |-> "", description |-> ""] }

\* prompt_add_transaction: an amount that does not parse aborts before the INSERT
prompt_add_transaction(inp) ==
    /\ variant = "cli"
    /\ Cardinality(assigned) < MaxTx
    /\ LET r == budgeter_to_cents(inp.amt)
           c == IF inp.kind = "expense" /\ r.val > 0 THEN -r.val ELSE r.val
       IN  IF r.ok
           THEN add_tx(inp.date, c, inp.kind, inp.category, inp.description)
           ELSE UNCHANGED <<transactions, sqlite_sequence, assigned>>
    /\ UNCHANGED <<variant, cfg, env, pc, unsynced, i, synced_ids, sink, ret, run,
                   last, acked>>

\* any answer counts, whatever its status
FirebaseConfirmed_any(resp) == ~resp.exc

\* only 201 Created counts
FirebaseConfirmed_created(resp) == ~resp.exc /\ resp.code = 201

\* resp.status_code in (200, 201)
FirebaseConfirmed(resp) == ~resp.exc /\ resp.code \in {200, 201}

\* a key of the store's own for every write (a push instead of a put)
FirebaseKey_pushed(tx) == MaxTx + 1 + Len(sink)

\* key = str(tx["id"])
FirebaseKey(tx) == tx.id

\* CloudSync.firebase_sync, up to the loop
firebase_sync ==
    LET base == RStripCh(Get(cfg, "firebase_url", <<>>), "/")
    IN  IF base = <<>>
        THEN Returns(Ret(FALSE, <<>>, "firebase_url not set in config.json"))
        ELSE IF Unsynced = <<>>
        THEN Returns(Ret(TRUE, <<>>, "No unsynced transactions"))
        ELSE Starts("fb_push", Unsynced)

\* CloudSync.google_sheets_sync, up to the loop; `opened` is whether the
\* credentials, the sheet and the worksheet could be opened
google_sheets_sync(opened) ==
    IF ~env.GS_AVAILABLE
    THEN Returns(Ret(FALSE, <<>>, "gspread/google-auth not installed"))
    ELSE IF \/ Strip(Get(cfg, "google_service_account_file", <<>>)) = <<>>
            \/ Strip(Get(cfg, "google_sheet_name", <<>>)) = <<>>
    THEN Returns(Ret(FALSE, <<>>, "Google service account file or sheet name missing in config"))
    ELSE IF ~opened
    THEN Returns(Ret(FALSE, <<>>, "exception"))
    ELSE IF Unsynced = <<>>
    THEN Returns(Ret(TRUE, <<>>, "No unsynced transactions"))
    ELSE /\ Len(sink) + Len(Unsynced) <= MaxSink
         /\ Starts("gs_append", Unsynced)

\* prompt_sync: Firebase if configured, else Google Sheets if configured
prompt_sync ==
    /\ variant = "cli"
    /\ pc = "idle"
    /\ IF Truthy(cfg, "firebase_url")
       THEN firebase_sync
       ELSE IF Truthy(cfg, "google_service_account_file") /\ Truthy(cfg, "google_sheet_name")
       THEN \E opened \in BOOLEAN : google_sheets_sync(opened)
       ELSE Returns(Ret(FALSE, <<>>, "No cloud configured"))

\* the loop without its try/except: an exception of requests.put leaves the
\* loop for the statements after it
FirebasePush_aborting(resp) ==
    /\ pc = "fb_push"
    /\ LET tx == unsynced[i]
       IN  /\ sink' = IF resp.stored THEN SinkPut(FirebaseKey(tx), {tx.id}) ELSE sink
           /\ synced_ids' = IF FirebaseConfirmed(resp)
                            THEN Append(synced_ids, tx.id) ELSE synced_ids
           /\ acked' = IF Is2xx(resp) THEN acked \cup {tx.id} ELSE acked
           /\ run' = [run EXCEPT !.tried = @ \cup {tx.id},
                                 !.C = IF ~resp.exc /\ resp.code \in {200, 201}
                                       THEN @ \cup {tx.id} ELSE @,
                                 !.A = IF Is2xx(resp) THEN @ \cup {tx.id} ELSE @,
                                 !.pushes = Append(@, tx.id)]
           /\ repushed' = IF resp.stored /\ \E k \in DOMAIN sink : tx.id \in sink[k].txs
                          THEN repushed \cup {tx.id} ELSE repushed
    /\ i' = i + 1
    /\ pc' = IF i = Len(unsynced) \/ resp.exc THEN "fb_mark" ELSE "fb_push"
    /\ UNCHANGED <<variant, cfg, env, transactions, sqlite_sequence, unsynced, ret,
                   last, assigned>>

\* one turn of firebase_sync's loop: requests.put and what it answers
FirebasePush(resp) ==
    /\ pc = "fb_push"
    /\ LET tx == unsynced[i]
       IN  /\ sink' = IF resp.stored THEN SinkPut(FirebaseKey(tx), {tx.id}) ELSE sink
           /\ synced_ids' = IF FirebaseConfirmed(resp)
                            THEN Append(synced_ids, tx.id) ELSE synced_ids
           /\ acked' = IF Is2xx(resp) THEN acked \cup {tx.id} ELSE acked
           /\ run' = [run EXCEPT !.tried = @ \cup {tx.id},
                                 !.C = IF ~resp.exc /\ resp.code \in {200, 201}
                                       THEN @ \cup {tx.id} ELSE @,
                                 !.A = IF Is2xx(resp) THEN @ \cup {tx.id} ELSE @,
                                 !.pushes = Append(@, tx.id)]
           /\ repushed' = IF resp.stored /\ \E k \in DOMAIN sink : tx.id \in sink[k].txs
                          THEN repushed \cup {tx.id} ELSE repushed
    /\ i' = i + 1
    /\ pc' = IF i = Len(unsynced) THEN "fb_mark" ELSE "fb_push"
    /\ UNCHANGED <<variant, cfg, env, transactions, sqlite_sequence, unsynced, ret,
                   last, assigned>>

\* after the loop: db.mark_synced of every row that is unsynced by now
FirebaseMark_rereading ==
    /\ pc = "fb_mark"
    /\ IF synced_ids # <<>>
       THEN mark_synced([k \in DOMAIN Unsynced |-> Unsynced[k].id])
       ELSE UNCHANGED transactions
    /\ Ends(Ret(TRUE, synced_ids, ""))
    /\ last' = Completed(run, IF synced_ids # <<>> THEN <<synced_ids>> ELSE <<>>)
    /\ UNCHANGED <<variant, cfg, env, sqlite_sequence, sink, acked, assigned>>

\* after the loop: db.mark_synced of every id that was fetched
FirebaseMark_all ==
    /\ pc = "fb_mark"
    /\ mark_synced([k \in DOMAIN unsynced |-> unsynced[k].id])
    /\ Ends(Ret(TRUE, synced_ids, ""))
    /\ last' = Completed(run, <<[k \in DOMAIN unsynced |-> unsynced[k].id]>>)
    /\ UNCHANGED <<variant, cfg, env, sqlite_sequence, sink, acked, assigned>>

\* after the loop: if synced_ids: db.mark_synced(synced_ids); return
FirebaseMark ==
    /\ pc = "fb_mark"
    /\ IF synced_ids # <<>> THEN mark_synced(synced_ids) ELSE UNCHANGED transactions
    /\ Ends(Ret(TRUE, synced_ids, ""))
    /\ last' = Completed(run, IF synced_ids # <<>> THEN <<synced_ids>> ELSE <<>>)
    /\ UNCHANGED <<variant, cfg, env, sqlite_sequence, sink, acked, assigned>>

\* the loop with mark_synced of the rows appended so far in the except branch
SheetsAppend_marking(resp) ==
    /\ pc = "gs_append"
    /\ LET tx == unsynced[i]
       IN  /\ sink' = IF resp.stored THEN SinkAppend({tx.id}) ELSE sink
           /\ acked' = IF ~resp.exc THEN acked \cup {tx.id} ELSE acked
           /\ IF resp.exc
              THEN /\ Ends(Ret(FALSE, <<>>, "exception"))
                   /\ mark_synced(synced_ids)
              ELSE /\ synced_ids' = Append(synced_ids, tx.id)
                   /\ run' = [run EXCEPT !.tried = @ \cup {tx.id}, !.C = @ \cup {tx.id},
                                         !.A = @ \cup {tx.id},
                                         !.pushes = Append(@, tx.id)]
                   /\ i' = i + 1
                   /\ pc' = IF i = Len(unsynced) THEN "gs_mark" ELSE "gs_append"
                   /\ UNCHANGED <<unsynced, ret, transactions>>
    /\ UNCHANGED <<variant, cfg, env, sqlite_sequence, last, assigned>>

\* one turn of google_sheets_sync's loop: worksheet.append_row; an exception
\* leaves the function through `except Exception`, past mark_synced
SheetsAppend(resp) ==
    /\ pc = "gs_append"
    /\ LET tx == unsynced[i]
       IN  /\ sink' = IF resp.stored THEN SinkAppend({tx.id}) ELSE sink
           /\ acked' = IF ~resp.exc THEN acked \cup {tx.id} ELSE acked
           /\ IF resp.exc
              THEN Ends(Ret(FALSE, <<>>, "exception"))
              ELSE /\ synced_ids' = Append(synced_ids, tx.id)
                   /\ run' = [run EXCEPT !.tried = @ \cup {tx.id}, !.C = @ \cup {tx.id},
                                         !.A = @ \cup {tx.id},
                                         !.pushes = Append(@, tx.id)]
                   /\ i' = i + 1
                   /\ pc' = IF i = Len(unsynced) THEN "gs_mark" ELSE "gs_append"
                   /\ UNCHANGED <<unsynced, ret>>
    /\ UNCHANGED <<variant, cfg, env, transactions, sqlite_sequence, last, assigned>>

\* after the loop: if appended_ids: db.mark_synced(appended_ids); return
SheetsMark ==
    /\ pc = "gs_mark"
    /\ IF synced_ids # <<>> THEN mark_synced(synced_ids) ELSE UNCHANGED transactions
    /\ Ends(Ret(TRUE, synced_ids, ""))
    /\ UNCHANGED <<variant, cfg, env, sqlite_sequence, sink, last, acked, assigned>>

\* the process is killed during a run (section 4.3: a crash mid-run)
Crash ==
    /\ pc # "idle"
    /\ Ends(Ret(FALSE, <<>>, "killed"))
    /\ UNCHANGED <<variant, cfg, env, transactions, sqlite_sequence, sink, last,
                   acked, assigned>>

(***************************************************************************)
(* app.py: the web app's request handlers.                                 *)
(***************************************************************************)
WebForms ==
    { [date |-> "2025-01-01", amount |-> <<"5">>, type |-> "expense",
       category |-> "Groceries", description |-> ""],
      [date |-> "2025-01-02", amount |-> <<"1", ".", "5", "0">>, type |-> "income",
       category |-> "Other", description |-> "pay"],
      [date |-> "2025-01-02", amount |-> <<"1", ".", "5">>, type |-> "expense",
       category |-> "Other", description |-> ""] }

TxIds == 1..MaxTx      \* the <int:txid> of a request

\* POST /add: to_cents raises before add_tx is called
add(form) ==
    /\ variant = "web"
    /\ Cardinality(assigned) < MaxTx
    /\ LET r == to_cents(form.amount)
       IN  IF r.ok
           THEN add_tx(form.date, r.val, form.type, form.category, form.description)
           ELSE UNCHANGED <<transactions, sqlite_sequence, assigned>>
    /\ UNCHANGED <<variant, cfg, env, pc, unsynced, i, synced_ids, sink, ret, run,
                   last, acked>>

\* POST /edit/<txid> storing the fields it can before parsing the amount
edit_fields_first(txid, form) ==
    /\ variant = "web"
    /\ LET r == to_cents(form.amount)
           c == IF r.ok \/ txid \notin Ids THEN r.val ELSE transactions[txid].amount_cents
       IN  /\ update_tx(txid, form.date, c, form.type, form.category, form.description)
           /\ edited' = IF r.ok /\ txid \in Ids /\ transactions[txid].synced
                         THEN edited \cup {txid} ELSE edited
    /\ UNCHANGED <<variant, cfg, env, sqlite_sequence, pc, unsynced, i, synced_ids,
                   sink, ret, run, last, acked, assigned>>

\* POST /edit/<txid>
edit(txid, form) ==
    /\ variant = "web"
    /\ LET r == to_cents(form.amount)
       IN  IF r.ok
           THEN /\ update_tx(txid, form.date, r.val, form.type, form.category,
                              form.description)
                /\ edited' = IF txid \in Ids /\ transactions[txid].synced
                              THEN edited \cup {txid} ELSE edited
           ELSE UNCHANGED <<transactions, edited>>
    /\ UNCHANGED <<variant, cfg, env, sqlite_sequence, pc, unsynced, i, synced_ids,
                   sink, ret, run, last, acked, assigned>>

\* DELETE /delete/<txid>
delete(txid) ==
    /\ variant = "web"
    /\ delete_tx(txid)
    /\ UNCHANGED <<variant, cfg, env, sqlite_sequence, pc, unsynced, i, synced_ids,
                   sink, ret, run, last, acked, assigned>>

\* POST /clear_all: DELETE FROM transactions
clear_all ==
    /\ variant = "web"
    /\ transactions' = [x \in {} |-> x]
    /\ UNCHANGED <<variant, cfg, env, sqlite_sequence, pc, unsynced, i, synced_ids,
                   sink, ret, run, last, acked, assigned>>

\* any answer counts, whatever its status
WebConfirmed_any(resp) == ~resp.exc

\* response.status_code == 200
WebConfirmed(resp) == ~resp.exc /\ resp.code = 200

\* /sync without the check of the configuration
sync_unchecked ==
    /\ variant = "web"
    /\ pc = "idle"
    /\ \E rows \in unsynced_txs :
          IF rows = <<>>
          THEN Returns(Ret(TRUE, <<>>, "Nothing to sync"))
          ELSE /\ Len(sink) < MaxPosts
               /\ Starts("web_post", rows)

\* /sync posting whatever unsynced_txs returned, an empty list too
sync_posting_empty ==
    /\ variant = "web"
    /\ pc = "idle"
    /\ IF ~Truthy(cfg, "firebase_url") \/ ~env.REQUESTS_AVAILABLE
       THEN Returns(Ret(FALSE, <<>>, "Sync not configured or requests unavailable"))
       ELSE \E rows \in unsynced_txs :
              /\ Len(sink) < MaxPosts
              /\ Starts("web_post", rows)

\* GET /sync, up to requests.post
sync ==
    /\ variant = "web"
    /\ pc = "idle"
    /\ IF ~Truthy(cfg, "firebase_url") \/ ~env.REQUESTS_AVAILABLE
       THEN Returns(Ret(FALSE, <<>>, "Sync not configured or requests unavailable"))
       ELSE \E rows \in unsynced_txs :
              IF rows = <<>>
              THEN Returns(Ret(TRUE, <<>>, "Nothing to sync"))
              ELSE /\ Len(sink) < MaxPosts
                   /\ Starts("web_post", rows)

\* f"Sync failed: {response.status_code}"
SyncFailed(code) ==
    CASE code = 201 -> "Sync failed: 201"
      [] code = 204 -> "Sync failed: 204"
      [] code = 500 -> "Sync failed: 500"
      [] OTHER -> "Sync failed"

\* GET /sync, from the answer of requests.post(firebase_url, json=unsynced)
SyncPost(resp) ==
    /\ pc = "web_post"
    /\ sink' = IF resp.stored THEN SinkAppend(IdsOf(unsynced)) ELSE sink
    /\ acked' = IF Is2xx(resp) THEN acked \cup IdsOf(unsynced) ELSE acked
    /\ IF WebConfirmed(resp)
       THEN /\ mark_synced([k \in DOMAIN unsynced |-> unsynced[k].id])
            /\ Ends(Ret(TRUE, <<>>, "Synced"))
       ELSE /\ UNCHANGED transactions
            /\ Ends(Ret(FALSE, <<>>, IF resp.exc THEN "Sync error" ELSE SyncFailed(resp.code)))
    /\ UNCHANGED <<variant, cfg, env, sqlite_sequence, last, assigned>>

(***************************************************************************)
(* The ledger and its sync runs: one program, from a fresh database.       *)
(***************************************************************************)
CodecOff ==
    /\ amount_str = <<>>
    /\ cents = 0
    /\ shown = <<>>
    /\ parsed = Raise
    /\ cpc = "off"

LedgerEmpty ==
    /\ transactions = [x \in {} |-> x]
    /\ sqlite_sequence = 0
    /\ pc = "idle"
    /\ unsynced = <<>>
    /\ i = 0
    /\ synced_ids = <<>>
    /\ sink = <<>>
    /\ ret = NoRet
    /\ run = NoRun
    /\ last = Completed(NoRun, <<>>)
    /\ acked = {}
    /\ assigned = {}
    /\ edited = {}
    /\ repushed = {}
    /\ settled = FALSE
    /\ called = NoCall

Init ==
    /\ \/ /\ variant = "cli"
          /\ cfg \in CliConfigs
          /\ env \in {[GS_AVAILABLE |-> g, REQUESTS_AVAILABLE |-> TRUE] :
                        g \in IF Truthy(cfg, "firebase_url") THEN {TRUE} ELSE BOOLEAN}
       \/ /\ variant = "web"
          /\ cfg \in WebConfigs
          /\ env \in {[GS_AVAILABLE |-> FALSE, REQUESTS_AVAILABLE |-> r] :
                        r \in IF cfg = "firebase_url" :> Url THEN BOOLEAN ELSE {TRUE}}
    /\ LedgerEmpty
    /\ CodecOff

\* what the store may answer: once settled, Firebase answers a PUT with 200
Answers == IF settled THEN {Status(200)} ELSE Responses

PromptAdd ==
    \E inp \in CliInputs :
        prompt_add_transaction(inp) /\ UNCHANGED <<codecVars, edited, repushed, settled, called>>

PromptSync == prompt_sync /\ UNCHANGED <<codecVars, edited, repushed, settled, called>>

FbPush ==
    \E resp \in Answers :
        FirebasePush(resp) /\ UNCHANGED <<codecVars, edited, settled, called>>

FbMark == FirebaseMark /\ UNCHANGED <<codecVars, edited, repushed, settled, called>>

GsAppend ==
    \E resp \in {Status(200), Exc(FALSE), Exc(TRUE)} :
        SheetsAppend(resp) /\ UNCHANGED <<codecVars, edited, repushed, settled, called>>

GsMark == SheetsMark /\ UNCHANGED <<codecVars, edited, repushed, settled, called>>

Killed == ~settled /\ Crash /\ UNCHANGED <<codecVars, edited, repushed, settled, called>>

WebAdd ==
    \E form \in WebForms :
        add(form) /\ UNCHANGED <<codecVars, edited, repushed, settled, called>>

WebEdit ==
    \E txid \in TxIds, form \in WebForms :
        edit(txid, form) /\ UNCHANGED <<codecVars, repushed, settled, called>>

WebDelete ==
    \E txid \in TxIds : delete(txid) /\ UNCHANGED <<codecVars, edited, repushed, settled, called>>

WebClearAll == clear_all /\ UNCHANGED <<codecVars, edited, repushed, settled, called>>

WebSync == sync /\ UNCHANGED <<codecVars, edited, repushed, settled, called>>

WebSyncPost ==
    \E resp \in Responses :
        SyncPost(resp) /\ UNCHANGED <<codecVars, edited, repushed, settled, called>>

Next ==
    \/ PromptAdd
    \/ PromptSync
    \/ FbPush
    \/ FbMark
    \/ GsAppend
    \/ GsMark
    \/ Killed
    \/ WebAdd
    \/ WebEdit
    \/ WebDelete
    \/ WebClearAll
    \/ WebSync
    \/ WebSyncPost

Spec == Init /\ [][Next]_vars

(***************************************************************************)
(* The CLI with Firebase configured, under the scheduling the retry claim  *)
(* assumes: sync runs keep being invoked, a run that is not killed goes    *)
(* on, and from some time on the store accepts and no run is killed.       *)
(***************************************************************************)
InitLive ==
    /\ variant = "cli"
    /\ cfg = "firebase_url" :> Url @@ NoGoogle
    /\ env = [GS_AVAILABLE |-> TRUE, REQUESTS_AVAILABLE |-> TRUE]
    /\ LedgerEmpty
    /\ CodecOff

\* the add prompt answered with one fixed transaction
PromptAddOne ==
    /\ prompt_add_transaction([date |-> "2025-01-01", kind |-> "expense", amt |-> <<"5">>,
                               category |-> "Groceries", description |-> ""])
    /\ UNCHANGED <<codecVars, edited, repushed, settled, called>>

\* the store recovers and the kills end
Settle ==
    /\ ~settled
    /\ settled' = TRUE
    /\ UNCHANGED <<variant, cfg, env, transactions, sqlite_sequence, pc, unsynced, i,
                   synced_ids, sink, ret, run, last, acked, assigned, edited, repushed,
                   called, codecVars>>

NextLive ==
    \/ PromptAddOne
    \/ PromptSync
    \/ FbPush
    \/ FbMark
    \/ Killed
    \/ Settle

SpecLive ==
    /\ InitLive
    /\ [][NextLive]_vars
    /\ WF_vars(PromptSync)
    /\ WF_vars(FbPush)
    /\ WF_vars(FbMark)
    /\ WF_vars(Settle)

(***************************************************************************)
(* The store on its own: the functions of database.py (the web app) or the *)
(* methods of BudgetDB (the CLI), called one after the other on a fresh    *)
(* database.                                                               *)
(***************************************************************************)
\* the arguments of an INSERT or an UPDATE
TxArgs ==
    { [iso_date |-> "2025-01-01", amount_cents |-> 150, type |-> "expense",
       category |-> "Groceries", description |-> ""],
      [iso_date |-> "2025-01-02", amount_cents |-> 500, type |-> "income",
       category |-> "Groceries", description |-> "refund"],
      [iso_date |-> "2025-01-02", amount_cents |-> 300, type |-> "expense",
       category |-> "Other", description |-> ""],
      [iso_date |-> "2025-02-01", amount_cents |-> 250, type |-> "expense",
       category |-> "Groceries", description |-> "market"] }

RowIds == 1..MaxRows                     \* a txid argument
Months == {"2025-01", "2025-02"}         \* a month_prefix argument
IdLists == {<<>>} \cup {<<a>> : a \in RowIds} \cup {<<a, b>> : a, b \in RowIds}

\* find_transactions' arguments (start_date, end_date, category)
Filters ==
    { <<"", "", "">>,
      <<"2025-01-01", "2025-01-02", "">>,
      <<"", "", "Groceries">> }

InitStore ==
    /\ variant \in {"cli", "web"}
    /\ cfg = <<>>
    /\ env = [GS_AVAILABLE |-> FALSE, REQUESTS_AVAILABLE |-> FALSE]
    /\ LedgerEmpty
    /\ CodecOff

\* what a call of the store leaves alone besides the table
StoreFrame ==
    UNCHANGED <<variant, cfg, env, pc, unsynced, i, synced_ids, sink, ret, run, last,
                acked, edited, repushed, settled, codecVars>>

\* database.add_tx(...): no return statement
AddTx ==
    /\ variant = "web"
    /\ Cardinality(assigned) < MaxRows
    /\ \E a \in TxArgs :
          /\ add_tx(a.iso_date, a.amount_cents, a.type, a.category, a.description)
          /\ called' = Call("add_tx", a, None)
    /\ StoreFrame

\* database.list_txs(limit, month_prefix)
ListTxs ==
    /\ variant = "web"
    /\ \E limit \in {1, 500}, month_prefix \in Months \cup {""} :
          called' = Call("list_txs", <<limit, month_prefix>>,
                         Value(list_txs(limit, month_prefix)))
    /\ UNCHANGED <<transactions, sqlite_sequence, assigned>>
    /\ StoreFrame

\* database.get_tx(txid)
GetTx ==
    /\ variant = "web"
    /\ \E txid \in RowIds : called' = Call("get_tx", txid, get_tx(txid))
    /\ UNCHANGED <<transactions, sqlite_sequence, assigned>>
    /\ StoreFrame

\* database.update_tx(txid, ...): no return statement, no check of the row count
UpdateTx ==
    /\ variant = "web"
    /\ \E txid \in RowIds, a \in TxArgs :
          /\ update_tx(txid, a.iso_date, a.amount_cents, a.type, a.category,
                        a.description)
          /\ called' = Call("update_tx", <<txid, a>>, None)
    /\ UNCHANGED <<sqlite_sequence, assigned>>
    /\ StoreFrame

\* database.delete_tx(txid): no return statement
DeleteTx ==
    /\ variant = "web"
    /\ \E txid \in RowIds :
          /\ delete_tx(txid)
          /\ called' = Call("delete_tx", txid, None)
    /\ UNCHANGED <<sqlite_sequence, assigned>>
    /\ StoreFrame

\* database.unsynced_txs()
UnsyncedTxs ==
    /\ variant = "web"
    /\ \E rows \in unsynced_txs : called' = Call("unsynced_txs", <<>>, Value(rows))
    /\ UNCHANGED <<transactions, sqlite_sequence, assigned>>
    /\ StoreFrame

\* database.mark_synced(ids): IN () for an empty list, which SQLite accepts
MarkSynced ==
    /\ variant = "web"
    /\ \E ids \in IdLists :
          /\ mark_synced(ids)
          /\ called' = Call("mark_synced", ids, None)
    /\ UNCHANGED <<sqlite_sequence, assigned>>
    /\ StoreFrame

\* database.monthly_summary(month_prefix)
MonthlySummary ==
    /\ variant = "web"
    /\ \E month_prefix \in Months :
          called' = Call("monthly_summary", month_prefix,
                         Value(monthly_summary(month_prefix)))
    /\ UNCHANGED <<transactions, sqlite_sequence, assigned>>
    /\ StoreFrame

\* BudgetDB.add_transaction(...): returns cur.lastrowid
AddTransaction ==
    /\ variant = "cli"
    /\ Cardinality(assigned) < MaxRows
    /\ \E a \in TxArgs :
          /\ add_tx(a.iso_date, a.amount_cents, a.type, a.category, a.description)
          /\ called' = Call("add_transaction", a, Value(NextRowid))
    /\ StoreFrame

\* BudgetDB.list_transactions(limit)
ListTransactions ==
    /\ variant = "cli"
    /\ \E limit \in {1, 100} :
          called' = Call("list_transactions", limit, Value(list_transactions(limit)))
    /\ UNCHANGED <<transactions, sqlite_sequence, assigned>>
    /\ StoreFrame

\* BudgetDB.find_transactions(start_date, end_date, category)
FindTransactions ==
    /\ variant = "cli"
    /\ \E f \in Filters :
          \E rows \in find_transactions(f[1], f[2], f[3]) :
              called' = Call("find_transactions", f, Value(rows))
    /\ UNCHANGED <<transactions, sqlite_sequence, assigned>>
    /\ StoreFrame

\* BudgetDB.unsynced()
UnsyncedCli ==
    /\ variant = "cli"
    /\ called' = Call("unsynced", <<>>, Value(Unsynced))
    /\ UNCHANGED <<transactions, sqlite_sequence, assigned>>
    /\ StoreFrame

\* BudgetDB.mark_synced(tx_ids): returns at once for an empty list
MarkSyncedCli ==
    /\ variant = "cli"
    /\ \E ids \in IdLists :
          /\ IF ids = <<>> THEN UNCHANGED transactions ELSE mark_synced(ids)
          /\ called' = Call("mark_synced", ids, None)
    /\ UNCHANGED <<sqlite_sequence, assigned>>
    /\ StoreFrame

NextStore ==
    \/ AddTx
    \/ ListTxs
    \/ GetTx
    \/ UpdateTx
    \/ DeleteTx
    \/ UnsyncedTxs
    \/ MarkSynced
    \/ MonthlySummary
    \/ AddTransaction
    \/ ListTransactions
    \/ FindTransactions
    \/ UnsyncedCli
    \/ MarkSyncedCli

SpecStore == InitStore /\ [][NextStore]_vars

(***************************************************************************)
(* The entry of transactions on its own: POST /add and POST /edit/<txid>   *)
(* of the web app and the add prompt of the CLI, with whatever the form or *)
(* the terminal sends; `called` records the last request.                  *)
(***************************************************************************)
\* request.form: `amount` is a free text input, and the handlers read `type`
\* as sent (the <select> of the page offers expense and income)
EntryForms ==
    { [date |-> "2025-01-01", amount |-> a, type |-> t,
       category |-> "Groceries", description |-> ""] :
         a \in {<<"5">>, <<"-", "5">>, <<>>, <<"1", ".", "5">>},
         t \in {"expense", "income", "transfer"} }

\* the answers to the prompts: `kind` is the answer that ended the while loop
EntryInputs ==
    { [date |-> "2025-01-01", kind |-> k, amt |-> a,
       category |-> "Groceries", description |-> ""] :
         k \in {"expense", "income"},
         a \in {<<"5">>, <<"-", "5">>, <<"$", "5">>} }

\* what Flask answers: the partial, or 500 for the uncaught ValueError
Responded(r) == IF r.ok THEN 200 ELSE 500

\* what the prompt prints last
Printed(r) == IF r.ok THEN "Saved transaction" ELSE "Unable to parse amount. Aborting."

InitEntry ==
    /\ variant \in {"cli", "web"}
    /\ cfg = <<>>
    /\ env = [GS_AVAILABLE |-> FALSE, REQUESTS_AVAILABLE |-> FALSE]
    /\ LedgerEmpty
    /\ CodecOff

EntryAdd ==
    \E form \in EntryForms :
        /\ add(form)
        /\ called' = Call("add", form, Responded(to_cents(form.amount)))
        /\ UNCHANGED <<codecVars, edited, repushed, settled>>

EntryEdit ==
    \E txid \in TxIds, form \in EntryForms :
        /\ edit(txid, form)
        /\ called' = Call("edit", [txid |-> txid, form |-> form],
                          Responded(to_cents(form.amount)))
        /\ UNCHANGED <<codecVars, repushed, settled>>

EntryPrompt ==
    \E inp \in EntryInputs :
        /\ prompt_add_transaction(inp)
        /\ called' = Call("prompt_add_transaction", inp,
                          Printed(budgeter_to_cents(inp.amt)))
        /\ UNCHANGED <<codecVars, edited, repushed, settled>>

NextEntry ==
    \/ EntryAdd
    \/ EntryEdit
    \/ EntryPrompt

SpecEntry == InitEntry /\ [][NextEntry]_vars

(***************************************************************************)
(* The codecs on their own: one input, parsed, or formatted and parsed     *)
(* back.                                                                   *)
(***************************************************************************)
InitCodec ==
    /\ variant = "codec"
    /\ cfg = <<>>
    /\ env = [GS_AVAILABLE |-> FALSE, REQUESTS_AVAILABLE |-> FALSE]
    /\ LedgerEmpty
    /\ \/ /\ cpc = "text"
          /\ amount_str \in Texts(MaxLen) \cup Examples
          /\ cents = 0
       \/ /\ cpc = "cents"
          /\ amount_str = <<>>
          /\ cents \in -MaxCents..MaxCents
       \/ /\ cpc = "none"                  \* the argument of cents_to_str is None
          /\ amount_str = <<>>
          /\ cents = 0
    /\ shown = <<>>
    /\ parsed = Raise

\* utils.to_cents(amount_str)
Parse ==
    /\ cpc = "text"
    /\ parsed' = to_cents(amount_str)
    /\ cpc' = "parsed"
    /\ UNCHANGED <<ledgerVars, amount_str, cents, shown>>

\* budgeter.to_cents(amount_str)
ParseCli ==
    /\ cpc = "text"
    /\ parsed' = budgeter_to_cents(amount_str)
    /\ cpc' = "parsed_cli"
    /\ UNCHANGED <<ledgerVars, amount_str, cents, shown>>

\* utils.cents_to_str(cents)
Format ==
    /\ cpc = "cents"
    /\ shown' = cents_to_str(cents)
    /\ cpc' = "shown"
    /\ UNCHANGED <<ledgerVars, amount_str, cents, parsed>>

\* budgeter.cents_to_str(cents)
FormatCli ==
    /\ cpc = "cents"
    /\ shown' = budgeter_cents_to_str(cents)
    /\ cpc' = "shown_cli"
    /\ UNCHANGED <<ledgerVars, amount_str, cents, parsed>>

\* utils.cents_to_str(None): `if cents is None: return ""`
FormatNone ==
    /\ cpc = "none"
    /\ shown' = <<>>
    /\ cpc' = "shown_none"
    /\ UNCHANGED <<ledgerVars, amount_str, cents, parsed>>

\* budgeter.cents_to_str(None): `cents < 0` raises TypeError
FormatCliNone ==
    /\ cpc = "none"
    /\ cpc' = "raised_cli"
    /\ UNCHANGED <<ledgerVars, amount_str, cents, shown, parsed>>

\* utils.to_cents(utils.cents_to_str(cents))
ParseBack ==
    /\ cpc = "shown"
    /\ parsed' = to_cents(shown)
    /\ cpc' = "back"
    /\ UNCHANGED <<ledgerVars, amount_str, cents, shown>>

\* budgeter.to_cents(budgeter.cents_to_str(cents))
ParseBackCli ==
    /\ cpc = "shown_cli"
    /\ parsed' = budgeter_to_cents(shown)
    /\ cpc' = "back_cli"
    /\ UNCHANGED <<ledgerVars, amount_str, cents, shown>>

NextCodec ==
    \/ Parse
    \/ ParseCli
    \/ Format
    \/ FormatCli
    \/ FormatNone
    \/ FormatCliNone
    \/ ParseBack
    \/ ParseBackCli

SpecCodec == InitCodec /\ [][NextCodec]_vars

(***************************************************************************)
(* Properties.                                                             *)
(***************************************************************************)
\* firebase_sync returns from its last statement (it was not killed)
FirebaseRunEnds == pc = "fb_mark" /\ pc' = "idle" /\ ret'.message # "killed"

\* a sync entry point is called and returns, or starts its loop
SyncCalled == pc = "idle" /\ (pc' # "idle" \/ ret' # ret)

FirebaseConfigured == variant = "cli" /\ Truthy(cfg, "firebase_url")

\* C1: when a firebase_sync run over the unsynced transactions U ends, exactly
\* those of U whose push the store confirmed (C) are synced and the others of
\* U are still unsynced; and of the transactions that existed when the
\* previous completed run fetched, the run pushed exactly that run's U \ C.
C1_PartialFailure ==
    [][FirebaseRunEnds =>
          /\ \A id \in run.U :
                id \in Ids' /\ (transactions'[id].synced <=> id \in run.C)
          /\ last.valid => (run.tried \cap last.known = last.U \ last.C)]_vars

C1_Witness ==
    /\ pc = "fb_mark"
    /\ last.valid
    /\ last.C # {}
    /\ last.U \ last.C # {}
    /\ run.tried = last.U \ last.C

\* C2: a transaction is synced only if the store answered with success a push
\* that contained it (a 2xx status; for the spreadsheet, append_row returned),
\* on every sync path.
C2_SyncedOnlyIfConfirmed ==
    \A id \in Ids : transactions[id].synced => id \in acked

C2_Witness ==
    \E a \in Ids, b \in Ids :
        /\ transactions[a].synced
        /\ a \in acked
        /\ b \in last.U
        /\ ~transactions[b].synced
        /\ b \notin acked

\* C3: no step sets the synced flag of a transaction that stays in the table
\* back from true to false.
C3_SyncedMonotone ==
    [][\A id \in Ids \cap DOMAIN transactions' :
          transactions[id].synced => transactions'[id].synced]_vars

C3_Witness ==
    \E id \in edited : id \in Ids /\ transactions[id].synced

\* C4: every id a step adds to the table was never assigned before, whatever
\* was deleted or cleared in between.
C4_IdNeverReused ==
    [][\A id \in DOMAIN transactions' \ Ids : id \notin assigned]_vars

C4_Witness ==
    \E gone \in assigned \ Ids : \E id \in Ids : id > gone

\* C5: under firebase_sync the store holds at most one record per transaction
\* id, also after runs that were killed between a confirmed push and
\* mark_synced and pushed again.
C5_OneRecordPerId ==
    FirebaseConfigured =>
        \A id \in assigned :
            Cardinality({k \in DOMAIN sink : id \in sink[k].txs}) <= 1

C5_Witness ==
    /\ FirebaseConfigured
    /\ \E id \in repushed : id \in Ids /\ transactions[id].synced

\* C6: every run fetches all the transactions that are unsynced, so one whose
\* push failed is tried again; and if runs keep being invoked and the store
\* ends up accepting, then whenever some transaction is unsynced, a later
\* state has every transaction in the table synced.
C6_RetryLiveness ==
    /\ [][(pc = "idle" /\ pc' = "fb_push") => IdsOf(unsynced') = UnsyncedIds]_vars
    /\ (UnsyncedIds # {}) ~> (UnsyncedIds = {})

C6_Witness ==
    /\ settled
    /\ last.valid
    /\ last.U = {1}
    /\ last.C = {1}
    /\ 2 \in last.known
    /\ \A id \in Ids : transactions[id].synced

\* the store untouched by a sync call that reports that nothing is configured
ReportsNotConfigured ==
    /\ pc' = "idle"
    /\ unsynced' = <<>>
    /\ ~ret'.ok
    /\ ret'.message \in {"No cloud configured", "firebase_url not set in config.json",
                         "Sync not configured or requests unavailable"}
    /\ transactions' = transactions
    /\ sink' = sink

\* C7 as stated: with firebase_url empty or missing, a sync call reports
\* NotConfigured, reads no unsynced transactions, pushes nothing and changes
\* no synced flag.
C7_AsStated ==
    [][(~Truthy(cfg, "firebase_url") /\ SyncCalled) => ReportsNotConfigured]_vars

NoSinkConfigured ==
    /\ ~Truthy(cfg, "firebase_url")
    /\ variant = "cli" =>
         ~(Truthy(cfg, "google_service_account_file") /\ Truthy(cfg, "google_sheet_name"))

\* C7 amended: with firebase_url empty or missing and, in the CLI, no Google
\* Sheets configured either, a sync call reports NotConfigured, reads no
\* unsynced transactions, pushes nothing and changes no synced flag.
C7_NotConfigured ==
    [][(NoSinkConfigured /\ SyncCalled) => ReportsNotConfigured]_vars

C7_Witness ==
    /\ NoSinkConfigured
    /\ ret.message \in {"No cloud configured",
                        "Sync not configured or requests unavailable"}
    /\ UnsyncedIds # {}

Cleaned(amount) ==
    LET s0 == Remove(Remove(amount, ","), "$")
    IN  IF StartsWith(s0, "-") THEN Tail(s0) ELSE s0

\* C9: utils.to_cents accepts an input with a decimal point only if it has one
\* decimal point and the part after it is exactly two digits.
C9_StrictFraction ==
    (cpc = "parsed" /\ Contains(amount_str, ".") /\ parsed.ok) =>
        LET s == Cleaned(amount_str)
            frac == SubSeq(s, DotAt(s) + 1, Len(s))
        IN  Count(s, ".") = 1 /\ Len(frac) = 2 /\ AllDigits(frac)

\* C10: utils.to_cents fails for every input that, without "$", "," and one
\* leading "-", is empty or holds a character other than digits and a single
\* decimal point.
C10_RejectsNonNumeric ==
    LET s == Cleaned(amount_str)
    IN  (/\ cpc = "parsed"
         /\ \/ s = <<>>
            \/ \E k \in 1..Len(s) : s[k] \notin Digits \cup {"."}
            \/ Count(s, ".") > 1)
        => ~parsed.ok

\* an optional "-", an optional "$", then whole digits with commas between
\* digits, then optionally "." and two digits
WholeDigits(w) ==
    /\ Len(w) > 0
    /\ \A k \in 1..Len(w) : w[k] \in Digits \cup {","}
    /\ w[1] \in Digits
    /\ w[Len(w)] \in Digits
    /\ \A k \in 1..(Len(w) - 1) : ~(w[k] = "," /\ w[k + 1] = ",")

Unsigned(amount) ==
    LET a == IF StartsWith(amount, "-") THEN Tail(amount) ELSE amount
    IN  IF StartsWith(a, "$") THEN Tail(a) ELSE a

WholePart(amount) ==
    LET a == Unsigned(amount)
    IN  IF Contains(a, ".") THEN SubSeq(a, 1, DotAt(a) - 1) ELSE a

FractionPart(amount) ==
    LET a == Unsigned(amount)
    IN  IF Contains(a, ".") THEN SubSeq(a, DotAt(a) + 1, Len(a)) ELSE <<>>

WellFormed(amount) ==
    /\ Count(amount, ".") <= 1
    /\ WholeDigits(WholePart(amount))
    /\ Contains(amount, ".") =>
          (Len(FractionPart(amount)) = 2 /\ AllDigits(FractionPart(amount)))

\* sign * (100 * W + F)
SignedCents(amount) ==
    (IF StartsWith(amount, "-") THEN -1 ELSE 1)
        * (100 * DigitsVal(Remove(WholePart(amount), ","))
             + DigitsVal(FractionPart(amount)))

\* C11: for every well-formed input utils.to_cents returns sign * (100*W + F),
\* with F = 0 when there is no decimal point; "-12.34" gives -1234,
\* "$1,234.56" gives 123456 and "-0.05" gives -5.
C11_WellFormedValue ==
    (cpc = "parsed" /\ WellFormed(amount_str)) =>
        parsed = Return(SignedCents(amount_str))

C11_Witness ==
    /\ cpc = "parsed"
    /\ amount_str = <<"$", "1", ",", "2", "3", "4", ".", "5", "6">>
    /\ WellFormed(amount_str)
    /\ parsed = Return(123456)

\* C12: cents_to_str, of utils.py and of budgeter.py, formats an integer c as
\* an optional "-", |c| div 100, "." and the two digits of |c| mod 100, and
\* formats None as the empty text.
C12_Format ==
    /\ cpc \in {"shown", "shown_cli"} =>
          shown = (IF cents < 0 THEN <<"-">> ELSE <<>>)
                    \o NatToStr(Abs(cents) \div 100) \o <<".">>
                    \o <<DigitChar((Abs(cents) % 100) \div 10),
                          DigitChar((Abs(cents) % 100) % 10)>>
    /\ cpc = "shown_none" => shown = <<>>
    /\ cpc # "raised_cli"

\* the row holds the arguments of an INSERT or an UPDATE
HoldsArgs(row, a) ==
    /\ row.iso_date = a.iso_date
    /\ row.amount_cents = a.amount_cents
    /\ row.type = a.type
    /\ row.category = a.category
    /\ row.description = a.description

\* C13: a call of add (database.add_tx, BudgetDB.add_transaction) inserts
\* exactly one new transaction, with the given fields and synced = false,
\* leaves every existing transaction unchanged and returns the new id.
C13_AddReturnsId ==
    [][called'.name \in {"add_tx", "add_transaction"} =>
          \E n \in DOMAIN transactions' \ Ids :
              /\ DOMAIN transactions' = Ids \cup {n}
              /\ transactions'[n].id = n
              /\ HoldsArgs(transactions'[n], called'.args)
              /\ ~transactions'[n].synced
              /\ \A x \in Ids : transactions'[x] = transactions[x]
              /\ called'.result = Value(n)]_vars

\* C14: update_tx on an id in the table replaces iso_date, amount_cents,
\* type, category and description of that row only, and leaves its id,
\* created_at and synced, and every other row, unchanged.
C14_UpdateFrame ==
    [][(called'.name = "update_tx" /\ called'.args[1] \in Ids) =>
          LET txid == called'.args[1]
          IN  /\ DOMAIN transactions' = Ids
              /\ HoldsArgs(transactions'[txid], called'.args[2])
              /\ transactions'[txid].id = transactions[txid].id
              /\ transactions'[txid].created_at = transactions[txid].created_at
              /\ transactions'[txid].synced = transactions[txid].synced
              /\ \A x \in Ids \ {txid} : transactions'[x] = transactions[x]]_vars

C14_Witness ==
    /\ called.name = "update_tx"
    /\ called.args[1] \in Ids
    /\ HoldsArgs(transactions[called.args[1]], called.args[2])
    /\ transactions[called.args[1]].synced
    /\ transactions[called.args[1]].iso_date = "2025-02-01"
    /\ \E x \in Ids : x > called.args[1] /\ ~HoldsArgs(transactions[x], called.args[2])

\* C15: update_tx on an id that is not in the table does not return as a
\* successful update does (it reports NotFound), get_tx on such an id returns
\* nothing, and both leave the table unchanged.
C15_NotFound ==
    [][/\ (called'.name = "update_tx" /\ called'.args[1] \notin Ids) =>
             (called'.result # None /\ transactions' = transactions)
       /\ (called'.name = "get_tx" /\ called'.args \notin Ids) =>
             (called'.result = None /\ transactions' = transactions)]_vars

\* a lookup in a summary, 0 for a category that is absent
At(summary, c) == IF c \in DOMAIN summary THEN summary[c] ELSE 0

\* what row r adds to the month's total of category c
Share(r, month_prefix, c) ==
    IF r.type = "expense" /\ Like(r.iso_date, month_prefix) /\ r.category = c
    THEN r.amount_cents ELSE 0

\* C16: delete_tx(id) removes exactly the row with that id and returns: after
\* it get_tx(id) returns nothing, list_txs and unsynced_txs do not hold the
\* row, monthly_summary no longer counts it, and every other row is
\* unchanged; with no such row nothing changes.
C16_DeleteFrame ==
    /\ [](called.name = "delete_tx" =>
            /\ called.result = None
            /\ get_tx(called.args) = None
            /\ \A month_prefix \in Months \cup {""} :
                  called.args \notin IdsOf(list_txs(500, month_prefix))
            /\ \A rows \in unsynced_txs : called.args \notin IdsOf(rows))
    /\ [][\A txid \in RowIds :
          (called'.name = "delete_tx" /\ called'.args = txid) =>
              /\ DOMAIN transactions' = Ids \ {txid}
              /\ \A x \in Ids \ {txid} : transactions'[x] = transactions[x]
              /\ \A month_prefix \in Months, c \in {"Groceries", "Other"} :
                    At(monthly_summary(month_prefix), c)' =
                        At(monthly_summary(month_prefix), c)
                          - (IF txid \in Ids
                             THEN Share(transactions[txid], month_prefix, c) ELSE 0)]_vars

C16_Witness ==
    /\ called.name = "delete_tx"
    /\ called.args \in assigned \ Ids
    /\ \E x \in Ids : x > called.args /\ transactions[x].type = "expense"

\* C17: list_txs, list_transactions and find_transactions return the rows in
\* descending order of date and, among rows of one date, of id.
C17_ListingOrder ==
    called.name \in {"list_txs", "list_transactions", "find_transactions"} =>
        \A j, k \in DOMAIN called.result.val :
            j < k => DateDescIdDesc(called.result.val[j], called.result.val[k])

\* the expenses of category c in the month
ExpensesOf(month_prefix, c) ==
    {x \in Ids : /\ transactions[x].type = "expense"
                 /\ transactions[x].category = c
                 /\ SubSeq(Chars(transactions[x].iso_date), 1, 7) = Chars(month_prefix)}

\* C18: database.monthly_summary(month_prefix) maps each category with an
\* expense in that month to the sum of amount_cents of its expenses in that
\* month; income and other months count for nothing and a category without
\* an expense in the month is absent.
C18_MonthlySummary ==
    called.name = "monthly_summary" =>
        LET summary == called.result.val
        IN  /\ DOMAIN summary \subseteq {"Groceries", "Other"}
            /\ \A c \in {"Groceries", "Other"} :
                  IF ExpensesOf(called.args, c) = {}
                  THEN c \notin DOMAIN summary
                  ELSE /\ c \in DOMAIN summary
                       /\ summary[c] = SumCents(ExpensesOf(called.args, c))

C18_Witness ==
    /\ called.name = "monthly_summary"
    /\ called.args = "2025-01"
    /\ called.result.val = ("Groceries" :> 150)
    /\ \E x \in Ids : transactions[x].type = "income" /\ transactions[x].category = "Groceries"

\* C19: database.unsynced_txs and BudgetDB.unsynced return exactly the rows
\* whose synced flag is false, in ascending order of id.
C19_UnsyncedAscending ==
    called.name \in {"unsynced_txs", "unsynced"} =>
        LET rows == called.result.val
        IN  /\ IdsOf(rows) = UnsyncedIds
            /\ Len(rows) = Cardinality(UnsyncedIds)
            /\ \A k \in DOMAIN rows : rows[k] = transactions[rows[k].id]
            /\ \A j, k \in DOMAIN rows : j < k => rows[j].id < rows[k].id

\* C20: mark_synced(ids) returns without an error and sets synced on exactly
\* the rows whose id is in ids, whether ids is empty, names a row already
\* synced or names no row; every other row is unchanged, and a second call
\* with the same ids changes nothing.
C20_MarkSynced ==
    [][called'.name = "mark_synced" =>
          LET ids == {called'.args[k] : k \in DOMAIN called'.args}
          IN  /\ called'.result = None
              /\ DOMAIN transactions' = Ids
              /\ \A x \in Ids \cap ids :
                    transactions'[x] = [transactions[x] EXCEPT !.synced = TRUE]
              /\ \A x \in Ids \ ids : transactions'[x] = transactions[x]
              /\ (called.name = "mark_synced" /\ called.args = called'.args) =>
                    transactions' = transactions]_vars

C20_Witness ==
    /\ called.name = "mark_synced"
    /\ Len(called.args) = 2
    /\ \E a \in Ids, b \in RowIds \ Ids :
          /\ {called.args[1], called.args[2]} = {a, b}
          /\ transactions[a].synced

\* the last request was one whose amount did not parse
AmountRejected ==
    \/ called.name \in {"add", "edit"} /\ called.result = 500
    \/ /\ called.name = "prompt_add_transaction"
       /\ called.result = "Unable to parse amount. Aborting."

\* C21: a request whose amount fails to parse (POST /add, POST /edit/<txid>,
\* the add prompt of the CLI) inserts and modifies nothing: the table and the
\* id counter are after the request what they were before it.
C21_RejectedAmountWritesNothing ==
    [][AmountRejected' =>
          /\ transactions' = transactions
          /\ sqlite_sequence' = sqlite_sequence
          /\ assigned' = assigned]_vars

C21_Witness ==
    /\ called.name = "edit"
    /\ called.result = 500
    /\ called.args.txid \in Ids
    /\ transactions[called.args.txid].type # called.args.form.type

\* C22: in the web app no row has a negative amount_cents, whatever /add and
\* /edit were sent.
C22_WebUnsigned ==
    variant = "web" => \A id \in Ids : transactions[id].amount_cents >= 0

\* C23: in the CLI every row stored by the add prompt has a negative
\* amount_cents if it is an expense and a positive one if it is an income.
C23_CliSigned ==
    variant = "cli" =>
        \A id \in Ids :
            /\ transactions[id].type = "expense" => transactions[id].amount_cents < 0
            /\ transactions[id].type = "income" => transactions[id].amount_cents > 0

\* C24: every row of the table has type expense or income.
C24_TypeDomain ==
    \A id \in Ids : transactions[id].type \in {"expense", "income"}

\* C25: in a firebase_sync run that is not killed every transaction fetched at
\* its start is pushed exactly once, whatever the store answered to the other
\* pushes: the loop is left only after its last item.
C25_OnePushEach ==
    [][/\ FirebaseRunEnds =>
             /\ \A id \in run.U : Count(run.pushes, id) = 1
             /\ Len(run.pushes) = Cardinality(run.U)
       /\ (pc = "fb_push" /\ pc' # "fb_push") =>
             (i = Len(unsynced) \/ ret'.message = "killed")]_vars

C25_Witness ==
    /\ pc = "fb_mark"
    /\ run.pushes = <<1, 2>>
    /\ run.U = {1, 2}
    /\ run.C = {2}
    /\ 1 \notin acked

\* the ids of a list of ids
Members(tx_ids) == {tx_ids[k] : k \in DOMAIN tx_ids}

\* a synced flag of the CLI's table changes
FlagChanges == \E id \in Ids : id \notin Ids' \/ transactions'[id].synced # transactions[id].synced

WebPostEnds == pc = "web_post" /\ pc' = "idle" /\ ret'.message # "killed"

\* what /sync returns when the store answered its POST with a 2xx status
Answered2xx == {"Synced", "Sync failed: 201", "Sync failed: 204"}

\* C27: a push is confirmed, and its transactions end the run synced, if and
\* only if the store answered it with a 2xx status, in firebase_sync (per
\* transaction) and in the web app's /sync (for the transactions it posted).
C27_ConfirmedIff2xx ==
    [][/\ FirebaseRunEnds =>
             \A id \in run.U : transactions'[id].synced <=> id \in run.A
       /\ WebPostEnds =>
             \A id \in run.U \cap Ids' :
                 transactions'[id].synced <=> ret'.message \in Answered2xx]_vars

\* C28: what a firebase_sync run returns reports the number of confirmed
\* pushes, the number of failed pushes and a reason for every failed one, the
\* two numbers adding up to the number of transactions fetched.
C28_ResultReports ==
    [][FirebaseRunEnds =>
          /\ ret'.synced = Cardinality(run.C)
          /\ "failed" \in DOMAIN ret'
          /\ ret'.failed = Cardinality(run.U \ run.C)
          /\ ret'.synced + ret'.failed = Cardinality(run.U)
          /\ "reasons" \in DOMAIN ret'
          /\ DOMAIN ret'.reasons = run.U \ run.C]_vars

\* the Firebase URL that firebase_sync, or /sync, goes on with
FirebaseReady ==
    \/ /\ variant = "cli"
       /\ Truthy(cfg, "firebase_url")
       /\ RStripCh(Get(cfg, "firebase_url", <<>>), "/") # <<>>
    \/ /\ variant = "web"
       /\ Truthy(cfg, "firebase_url")
       /\ env.REQUESTS_AVAILABLE

\* C29: firebase_sync, or /sync, called when no transaction is unsynced returns
\* at once that there is nothing to sync: nothing is sent to the store,
\* mark_synced is not called and the table is unchanged.
C29_NothingToSync ==
    [][(SyncCalled /\ FirebaseReady /\ UnsyncedIds = {}) =>
          /\ pc' = "idle"
          /\ ret'.message \in {"No unsynced transactions", "Nothing to sync"}
          /\ ret'.synced = 0
          /\ sink' = sink
          /\ acked' = acked
          /\ last' = last
          /\ transactions' = transactions]_vars

C29_Witness ==
    /\ pc = "idle"
    /\ FirebaseReady
    /\ ret.message \in {"No unsynced transactions", "Nothing to sync"}
    /\ Ids # {}
    /\ UnsyncedIds = {}
    /\ Len(sink) = Cardinality(Ids)

\* C30: over any sequence of google_sheets_sync runs no transaction id is in
\* more than one row of the worksheet.
C30_NoDuplicateRows ==
    (variant = "cli" /\ ~Truthy(cfg, "firebase_url")) =>
        \A id \in assigned : Cardinality({k \in DOMAIN sink : id \in sink[k].txs}) <= 1

\* the ids of the rows dated in the month (every id when no month is given)
InMonth(month_prefix) ==
    IF month_prefix = "" THEN Ids
    ELSE {x \in Ids : SubSeq(Chars(transactions[x].iso_date), 1, 7) = Chars(month_prefix)}

\* rows are rows of the table with ids in S, each at most once
RowsOf(rows, S) ==
    /\ \A k \in DOMAIN rows : rows[k].id \in S /\ rows[k] = transactions[rows[k].id]
    /\ \A j, k \in DOMAIN rows : j # k => rows[j].id # rows[k].id

\* C31: list_txs(limit, month_prefix) returns the first `limit` rows, by date
\* descending then id descending, of the rows dated in that month (of all rows
\* when no month is given): no row of another month, no more than `limit`
\* rows, and no row left out that comes before a returned one.
C31_ListTxs ==
    called.name = "list_txs" =>
        LET limit == called.args[1]
            M == InMonth(called.args[2])
            rows == called.result.val
        IN  /\ RowsOf(rows, M)
            /\ Len(rows) = (IF Cardinality(M) < limit THEN Cardinality(M) ELSE limit)
            /\ \A j, k \in DOMAIN rows : j < k => DateDescIdDesc(rows[j], rows[k])
            /\ \A x \in M \ IdsOf(rows) :
                  \A k \in DOMAIN rows : DateDescIdDesc(rows[k], transactions[x])

C31_Witness ==
    /\ called.name = "list_txs"
    /\ called.args = <<1, "2025-01">>
    /\ \E x \in Ids : transactions[x].iso_date = "2025-02-01"
    /\ Len(called.result.val) = 1
    /\ called.result.val[1].iso_date = "2025-01-01"

\* the day of a date, counted from 2025-01-01
Day(iso_date) ==
    CASE iso_date = "2025-01-01" -> 1
      [] iso_date = "2025-01-02" -> 2
      [] iso_date = "2025-02-01" -> 32

\* C32: find_transactions(start_date, end_date, category) returns exactly the
\* rows with start_date <= date <= end_date and that category, each filter
\* applying only when its argument is given.
C32_FindTransactions ==
    called.name = "find_transactions" =>
        LET start_date == called.args[1]
            end_date == called.args[2]
            category == called.args[3]
            rows == called.result.val
            S == {x \in Ids :
                    /\ start_date # "" => Day(start_date) <= Day(transactions[x].iso_date)
                    /\ end_date # "" => Day(transactions[x].iso_date) <= Day(end_date)
                    /\ category # "" => transactions[x].category = category}
        IN  RowsOf(rows, S) /\ IdsOf(rows) = S

C32_Witness ==
    /\ called.name = "find_transactions"
    /\ called.args = <<"2025-01-01", "2025-01-02", "">>
    /\ Len(called.result.val) = 2
    /\ \E k \in DOMAIN called.result.val : called.result.val[k].iso_date = "2025-01-01"
    /\ \E k \in DOMAIN called.result.val : called.result.val[k].iso_date = "2025-01-02"

\* C36: every text that utils.to_cents and budgeter.to_cents both accept is
\* given the same cents value by both.
C36_ParsersAgree ==
    (/\ cpc \in {"parsed", "parsed_cli"}
     /\ to_cents(amount_str).ok
     /\ budgeter_to_cents(amount_str).ok)
        => to_cents(amount_str) = budgeter_to_cents(amount_str)

\* the places of the remote store that hold transaction id
Holding(store, id) == {k \in DOMAIN store : id \in store[k].txs}

SheetsRunEnds == pc \in {"gs_append", "gs_mark"} /\ pc' = "idle"

\* C34: a sync run (firebase_sync, /sync, google_sheets_sync) changes the
\* synced flag of no transaction it did not fetch: a transaction added after
\* the run read the unsynced rows is still unsynced when the run has ended.
C34_MarksOnlyFetched ==
    [][(pc # "idle" /\ pc' = "idle") =>
          /\ \A id \in Ids \ run.U :
                id \in Ids' => transactions'[id].synced = transactions[id].synced
          /\ \A id \in Ids' \ run.known : ~transactions'[id].synced]_vars

C34_Witness ==
    /\ pc = "fb_mark"
    /\ run.C # {}
    /\ synced_ids # <<>>
    /\ \E id \in Ids \ run.known : ~transactions[id].synced

\* C35: when a run of /sync or of google_sheets_sync has ended, the
\* transactions it fetched are either all synced or all unsynced, and all
\* unsynced when the run did not end with success.
C35_AllOrNothing ==
    [][(WebPostEnds \/ SheetsRunEnds) =>
          LET U == run.U \cap Ids'
          IN  /\ \/ \A id \in U : transactions'[id].synced
                 \/ \A id \in U : ~transactions'[id].synced
              /\ ~ret'.ok => \A id \in U : ~transactions'[id].synced]_vars

C35_Witness ==
    /\ variant = "cli"
    /\ pc = "idle"
    /\ ret.message = "exception"
    /\ Cardinality(Ids) = 2
    /\ \A id \in Ids : ~transactions[id].synced
    /\ \E id \in Ids : id \in acked /\ Holding(sink, id) # {}
    /\ \E id \in Ids : id \notin acked

====
